---- MODULE Spec2Model ----
(***************************************************************************)
(* Quality-gated image generation of the Genspark workflow:                *)
(*   GensparkWorkflow.generateImageWithQualityCheck  (gensparkWorkflow.ts) *)
(*   GensparkPlaywrightGenerator                     (gensparkPlaywright.ts)*)
(*   ImageQualityEvaluator                           (htmlComposer.ts)     *)
(* Each action is one stretch of code between two awaits on the browser,   *)
(* the judge or the fallback backend.  What the browser page shows, what   *)
(* the judge answers and what the fallback backend returns are inputs.     *)
(***************************************************************************)
EXTENDS Integers, Sequences, FiniteSets, TLC

(* ---------------------------------------------------------------------- *)
(* Program constants                                                      *)
(* ---------------------------------------------------------------------- *)
MAX_RETRIES == 5
MAX_GEMINI_ATTEMPTS == 3
AcceptThreshold == 65
MaxScore == 100

\* waitForImageGeneration: least natural and displayed side of a candidate,
\* and the natural side from which an element counts as generated
MIN_NATURAL == 300
MIN_DISPLAY == 150
MIN_GENERATED == 500

\* adjustSlidesToFourSlides: slides of a post, and content slides taken
SLIDES_PER_POST == 4
CONTENT_SLIDES == 3

(* ---------------------------------------------------------------------- *)
(* Bounds of the model                                                    *)
(* ---------------------------------------------------------------------- *)
\* number of slide requests issued one after the other on the same generator
MaxSlides == 2

\* img elements on the page waitForImageGeneration looks at
MaxImgs == 1

\* slides in the list handed to adjustSlidesToFourSlides
MaxInputSlides == 4

(* ---------------------------------------------------------------------- *)
(* Quality reports                                                        *)
(* ---------------------------------------------------------------------- *)
CheckNames ==
  {"characterPresent", "characterFeatures", "backgroundValid", "textPresent",
   "textReadable", "textComplete", "compositionValid"}

AllChecks == [CheckNames -> BOOLEAN]

\* scores the judge is made to answer in the controller specification: both
\* sides of the threshold (the gate specification answers every score)
ScoreSamples == {AcceptThreshold - 1, AcceptThreshold}

AllScores == 0..MaxScore

\* the report returned when the judge call fails or its answer does not parse
FailedReport ==
  [isValid |-> FALSE, score |-> 0, checks |-> [c \in CheckNames |-> FALSE]]

\* what the judge call can produce: the call throws, the text holds no JSON
\* object, the JSON is invalid, the JSON has no numeric score, or a full answer
JudgeKinds == {"callFails", "noJson", "invalidJson", "jsonNoScore", "json"}

\* checks and score are what the JSON holds: nothing for the kinds without
\* JSON (all false and 0 stand for that), no score when the JSON has none
ChecksOf(kind) ==
  IF kind \in {"json", "jsonNoScore"} THEN AllChecks ELSE {[c \in CheckNames |-> FALSE]}

ScoresOf(kind, scores) == IF kind = "json" THEN scores ELSE {0}

JudgeResponse(kind, checks, score) == [kind |-> kind, checks |-> checks, score |-> score]

\* variant: the safe default of the catch block passes every check
parseEvaluationResult_FailOpen(resp) ==
  IF resp.kind \in {"noJson", "invalidJson"}
  THEN [isValid |-> TRUE, score |-> 0, checks |-> [c \in CheckNames |-> TRUE]]
  ELSE [isValid |-> \A c \in CheckNames : resp.checks[c],
        score   |-> IF resp.kind = "jsonNoScore" THEN 0 ELSE resp.score,
        checks  |-> resp.checks]

parseEvaluationResult(resp) ==
  IF resp.kind \in {"noJson", "invalidJson"}
  THEN FailedReport
  ELSE [isValid |-> \A c \in CheckNames : resp.checks[c],
        score   |-> IF resp.kind = "jsonNoScore" THEN 0 ELSE resp.score,
        checks  |-> resp.checks]

\* imagePath is <<>> when there is no file to read: readFile then throws
\* inside the try block, like a failing judge call
evaluateImage(imagePath, resp) ==
  IF Len(imagePath) = 0 \/ resp.kind = "callFails"
  THEN FailedReport
  ELSE parseEvaluationResult(resp)


(* ---------------------------------------------------------------------- *)
(* Prompts: a prompt is the sequence of its parts, corrective prefixes     *)
(* first; string concatenation is sequence concatenation                  *)
(* ---------------------------------------------------------------------- *)
prompt == <<"ORIGINAL">>

FixPrefixes ==
  {"FIX_TEXT_PRESENT", "FIX_TEXT_COMPLETE", "FIX_CHARACTER_PRESENT",
   "FIX_CHARACTER_FEATURES", "FIX_BACKGROUND"}

\* variant: the character comes before the text
FixPrefix_CharacterFirst(checkResult) ==
  IF ~checkResult.checks["characterPresent"] THEN <<"FIX_CHARACTER_PRESENT">>
  ELSE IF ~checkResult.checks["characterFeatures"] THEN <<"FIX_CHARACTER_FEATURES">>
  ELSE IF ~checkResult.checks["textPresent"] THEN <<"FIX_TEXT_PRESENT">>
  ELSE IF ~checkResult.checks["textComplete"] THEN <<"FIX_TEXT_COMPLETE">>
  ELSE IF ~checkResult.checks["backgroundValid"] THEN <<"FIX_BACKGROUND">>
  ELSE <<>>

FixPrefix(checkResult) ==
  IF ~checkResult.checks["textPresent"] THEN <<"FIX_TEXT_PRESENT">>
  ELSE IF ~checkResult.checks["textComplete"] THEN <<"FIX_TEXT_COMPLETE">>
  ELSE IF ~checkResult.checks["characterPresent"] THEN <<"FIX_CHARACTER_PRESENT">>
  ELSE IF ~checkResult.checks["characterFeatures"] THEN <<"FIX_CHARACTER_FEATURES">>
  ELSE IF ~checkResult.checks["backgroundValid"] THEN <<"FIX_BACKGROUND">>
  ELSE <<>>

\* variant: the prompt comes back as it was given
generateFixedPrompt_Unchanged(originalPrompt, checkResult) == originalPrompt

\* the corrective prefix of the report, then the prompt given
generateFixedPrompt(originalPrompt, checkResult) ==
  FixPrefix(checkResult) \o originalPrompt

\* variant: the repair is applied to the prompt of the rejected attempt
RepairBase_Current(original, current) == current

\* the prompt the controller repairs on a rejection (always the original)
RepairBase(original, current) == original

(* ---------------------------------------------------------------------- *)
(* The quality gate of the controller                                     *)
(* ---------------------------------------------------------------------- *)
\* variant: the readability of the text is a strict check too
StrictChecks_WithReadable ==
  {"textPresent", "textReadable", "textComplete", "characterPresent", "characterFeatures"}

\* the checks copied into strictChecks
StrictChecks == {"textPresent", "textComplete", "characterPresent", "characterFeatures"}

\* variant: the character features are left out of the strict checks
strictFailures_NoFeatures(qualityResult) ==
  {c \in StrictChecks \ {"characterFeatures"} : ~qualityResult.checks[c]}

strictFailures(qualityResult) ==
  {c \in StrictChecks : ~qualityResult.checks[c]}

\* variant: a failed background is never excused by the score
onlyBackgroundFailed_Never(qualityResult) == FALSE

onlyBackgroundFailed(qualityResult) ==
  strictFailures(qualityResult) = {} /\ ~qualityResult.checks["backgroundValid"]

\* variant: the threshold itself does not pass
ScorePasses_Above(score) == score > AcceptThreshold

ScorePasses(score) == score >= AcceptThreshold

\* variant: a failed background is never a critical failure
criticalFailures_NoBackground(qualityResult) == strictFailures(qualityResult)

criticalFailures(qualityResult) ==
  strictFailures(qualityResult)
    \cup (IF ~qualityResult.checks["backgroundValid"] THEN {"backgroundValid"} ELSE {})

\* variant: the score has to pass as well when nothing failed
GateDecision_ScoreAlways(qualityResult) ==
  IF criticalFailures(qualityResult) \ {"backgroundValid"} = {}
       /\ ScorePasses(qualityResult.score)
  THEN "accept"
  ELSE "reject"

\* "accept" (either return statement) or "reject"
GateDecision(qualityResult) ==
  IF onlyBackgroundFailed(qualityResult) /\ ScorePasses(qualityResult.score)
  THEN "accept"
  ELSE IF criticalFailures(qualityResult) # {} THEN "reject"
  ELSE "accept"

(* ---------------------------------------------------------------------- *)
(* Error messages: a message is the sequence of its words (the Japanese    *)
(* words are written in romaji); includes() is membership of the keyword  *)
(* ---------------------------------------------------------------------- *)
\* 'Genspark he no roguin ni shippai shimashita'
MsgLoginFailed == <<"Genspark", "he", "no", "roguin", "ni", "shippai", "shimashita">>
\* 'gazou seisei peeji he no idou ni shippai shimashita'
MsgNavigationFailed ==
  <<"gazou", "seisei", "peeji", "he", "no", "idou", "ni", "shippai", "shimashita">>
\* an error of the browser driver that login() and init() do not catch
MsgBrowserLaunch == <<"browserType.launchPersistentContext", "failed">>

Includes(msg, word) == \E i \in 1..Len(msg) : msg[i] = word

\* the words 'roguin' (login in katakana), 'login' and 'ninshou' (authentication)
FatalKeywords == {"roguin", "login", "ninshou"}

\* variant: only the ASCII keyword is looked for
IsFatalError_AsciiOnly(errorMsg) == Includes(errorMsg, "login")

IsFatalError(errorMsg) == \E w \in FatalKeywords : Includes(errorMsg, w)

(* ---------------------------------------------------------------------- *)
(* The browser page as the generator observes it                          *)
(* ---------------------------------------------------------------------- *)
UrlWords ==
  {"accounts.google.com", "/login", "/signin", "login", "genspark.ai",
   "image_generation_agent"}

\* a URL is the set of the substrings it contains ("/login" contains "login")
Urls == {u \in SUBSET UrlWords : ("/login" \in u) => ("login" \in u)}

\* detached: page.$() throws (isOnLoginPage catches it); page.url() does not
Pages ==
  [url : Urls, textarea : BOOLEAN, workspaceTitle : BOOLEAN, loginButton : BOOLEAN,
   detached : BOOLEAN]

\* variant: the textarea is looked for whatever the URL
isOnLoginPage_TextareaAnywhere(page) ==
  IF "accounts.google.com" \in page.url THEN TRUE
  ELSE IF "/login" \in page.url \/ "/signin" \in page.url THEN TRUE
  ELSE IF page.detached THEN FALSE
  ELSE IF page.textarea THEN FALSE
  ELSE page.workspaceTitle /\ page.loginButton

\* the URL is tested first; the page is queried only after that, the
\* textarea only on a genspark.ai URL, and a query that throws gives false
isOnLoginPage(page) ==
  IF "accounts.google.com" \in page.url THEN TRUE
  ELSE IF "/login" \in page.url \/ "/signin" \in page.url THEN TRUE
  ELSE IF page.detached THEN FALSE
  ELSE IF "genspark.ai" \in page.url /\ page.textarea THEN FALSE
  ELSE page.workspaceTitle /\ page.loginButton

\* Enter was answered by a redirect to the Google login
RedirectedToGoogle(url) == "accounts.google.com" \in url

\* exit test of waitForGoogleLogin
BackOnGenspark(url) == "genspark.ai" \in url /\ "login" \notin url

\* what the three probes of the page can answer over all pages
LoginProbes == {isOnLoginPage(page) : page \in Pages}
GoogleWaitProbes == {BackOnGenspark(url) : url \in Urls}
RedirectProbes == {RedirectedToGoogle(url) : url \in Urls}

(* ---------------------------------------------------------------------- *)
(* State                                                                  *)
(* ---------------------------------------------------------------------- *)
VARIABLES
  pc,                 \* where the run is suspended
  slideIndex,         \* execute: index i of the slide being requested
  attempt,            \* controller: loop variable of the Genspark phase
  currentPrompt,      \* controller: prompt of the next primary attempt
  lastQualityResult,  \* controller: <<>> (null) or <<report>>
  gensparkFatalError, \* controller: login-classified error seen
  geminiAttempt,      \* controller: loop variable of the Gemini phase
  result,             \* what the request returned or raised
  isLoggedIn,         \* generator: login() has succeeded
  contextOpen,        \* generator: this.context # null
  gPrompt,            \* generator: the prompt it was called with
  images,             \* generator: images returned to the controller
  pollTick,           \* parity of the polls of the wait loop in progress
  primaryCalls,       \* generateCarouselImages calls of this request
  fallbackCalls,      \* generateBackgroundWithImagen3 calls of this request
  primaryOutcome,     \* outcome of the latest primary attempt
  idpRedirect,        \* latest primary attempt was sent to Google login
  attemptEvals,       \* evaluateImage calls made for the latest primary attempt
  judgeKind,          \* kind of the judge's answer for the latest primary attempt
  allIncomplete,      \* every primary attempt so far gave an image with cut text
  generatedImages,    \* execute: image path of each slide requested so far
  qualityResults,     \* execute: <<>> (null) or <<report>> of each of these slides
  finalImages,        \* execute: final image of each slide, <<>> before step 6
  composeMode,        \* execute: branch of step 6 that was taken
  composeIdx,         \* execute: position in imagen3FallbackIndices
  composeRouted,      \* slides handed to a render...Slide call of htmlComposer
  publicUrls,         \* execute: URLs returned by the FTP upload
  historyWritten,     \* postHistory.addPost succeeded
  scheduled,          \* <<>> or <<imageUrls>> handed to a successful Publer call
  execResult,         \* <<>> or <<what execute returned>>
  snapshotIO,         \* what the step just taken did with STATE_FILE
  blog,               \* execute: "none", "generated" or "saved" (step 3)
  callArgs,           \* <<>> or <<input>> of a function called on its own
  callResult          \* <<>> or <<what that function returned>>

execVars ==
  <<generatedImages, qualityResults, finalImages, composeMode, composeIdx,
    composeRouted, publicUrls, historyWritten, scheduled, execResult>>

\* state outside the slide requests: step 3, and the functions called alone
outerVars == <<blog, callArgs, callResult>>

vars ==
  <<pc, slideIndex, attempt, currentPrompt, lastQualityResult, gensparkFatalError,
    geminiAttempt, result, isLoggedIn, contextOpen, gPrompt, images, pollTick,
    primaryCalls, fallbackCalls, primaryOutcome, idpRedirect, attemptEvals,
    judgeKind, allIncomplete, execVars, snapshotIO, outerVars>>

controllerVars == <<attempt, currentPrompt, lastQualityResult, gensparkFatalError>>
counters == <<primaryCalls, fallbackCalls>>

NoResult == [status |-> "none", imagePath |-> <<>>, qualityResult |-> <<>>]

\* variant: every attempt of a provider writes the same file
ImagePath_Fixed(provider, n) == <<provider, 0>>

\* the file a generation attempt writes: provider and attempt number
ImagePath(provider, n) == <<provider, n>>

\* images[0]; <<>> stands for undefined
FirstImage(imgs) == IF Len(imgs) = 0 THEN <<>> ELSE imgs[1]

\* execute has requested no slide yet
NoExecution ==
  /\ generatedImages = <<>>
  /\ qualityResults = <<>>
  /\ finalImages = <<>>
  /\ composeMode = "none"
  /\ composeIdx = 1
  /\ composeRouted = {}
  /\ publicUrls = <<>>
  /\ historyWritten = FALSE
  /\ scheduled = <<>>
  /\ execResult = <<>>

\* the steps before step 5 are over and no function is called on its own
RequestsOnly ==
  /\ snapshotIO = "none"
  /\ blog = "saved"
  /\ callArgs = <<>>
  /\ callResult = <<>>

\* variant: the images generated before the failure are returned
FailureResult_Partial ==
  [success |-> FALSE, localImages |-> generatedImages, publicUrls |-> <<>>]

\* what execute returns from its catch block
FailureResult == [success |-> FALSE, localImages |-> <<>>, publicUrls |-> <<>>]

Init ==
  /\ pc = "p_call"
  /\ slideIndex = 0
  /\ attempt = 1
  /\ currentPrompt = prompt
  /\ lastQualityResult = <<>>
  /\ gensparkFatalError = FALSE
  /\ geminiAttempt = 1
  /\ result = NoResult
  /\ isLoggedIn = FALSE
  /\ contextOpen = FALSE
  /\ gPrompt = <<>>
  /\ images = <<>>
  /\ pollTick = 0
  /\ primaryCalls = 0
  /\ fallbackCalls = 0
  /\ primaryOutcome = "none"
  /\ idpRedirect = FALSE
  /\ attemptEvals = 0
  /\ judgeKind = "none"
  /\ allIncomplete = TRUE
  /\ NoExecution
  /\ RequestsOnly

(* ---------------------------------------------------------------------- *)
(* Controller: control flow of the Genspark loop                          *)
(* ---------------------------------------------------------------------- *)
\* variant: one iteration too many
LoopContinues_OneMore(a) == a <= MAX_RETRIES + 1

\* loop test of  for (attempt = 1; attempt <= MAX_RETRIES; attempt++)
LoopContinues(a) == a <= MAX_RETRIES

\* variant: the last retry is given up
MayRetry_Early(a) == a < MAX_RETRIES - 1

\* test guarding the retry after a rejection
MayRetry(a) == a < MAX_RETRIES

\* code reached when the Genspark loop is left: the Gemini loop of the
\* login-failure branch, or the one after the quality failure
AfterLoop(fatal) == IF fatal THEN "f_login" ELSE "f_quality"

\* variant: the Genspark loop is left instead of continued
Continue_GiveUp ==
  /\ pc' = AfterLoop(gensparkFatalError)
  /\ UNCHANGED <<attempt, currentPrompt, lastQualityResult, gensparkFatalError>>

\* 'continue': next iteration, or the loop ends
Continue ==
  /\ attempt' = attempt + 1
  /\ pc' = IF LoopContinues(attempt + 1) THEN "p_call" ELSE AfterLoop(gensparkFatalError)
  /\ UNCHANGED <<currentPrompt, lastQualityResult, gensparkFatalError>>

\* variant: every error of the generator ends the Genspark loop
CatchGeneratorError_BreakAlways(errorMsg) ==
  /\ gensparkFatalError' = IsFatalError(errorMsg)
  /\ pc' = AfterLoop(IsFatalError(errorMsg))
  /\ UNCHANGED <<attempt, currentPrompt, lastQualityResult>>

\* catch block around generateCarouselImages
CatchGeneratorError(errorMsg) ==
  IF IsFatalError(errorMsg)
  THEN /\ gensparkFatalError' = TRUE
       /\ pc' = AfterLoop(TRUE)
       /\ UNCHANGED <<attempt, currentPrompt, lastQualityResult>>
  ELSE Continue

\* variant: the empty list is not tested and the evaluator is always called
ReturnImages_AlwaysEvaluate(imgs) ==
  /\ images' = imgs
  /\ pc' = "c_evaluate"
  /\ UNCHANGED controllerVars

\* generateCarouselImages returned its list of images
ReturnImages(imgs) ==
  /\ images' = imgs
  /\ IF Len(imgs) = 0
     THEN Continue
     ELSE pc' = "c_evaluate" /\ UNCHANGED controllerVars

(* ---------------------------------------------------------------------- *)
(* Generator: generateCarouselImages([currentPrompt]) and what it calls    *)
(* ---------------------------------------------------------------------- *)
\* the attempt ends with an error thrown to the controller
ThrowToController(outcome, errorMsg) ==
  /\ primaryOutcome' = outcome
  /\ allIncomplete' = FALSE
  /\ images' = <<>>
  /\ pollTick' = 0
  /\ gPrompt' = <<>>
  /\ CatchGeneratorError(errorMsg)

\* variant: the controller goes on while the attempt is still in flight
ReturnToController_NotAwaited(outcome, imgs) ==
  /\ UNCHANGED <<primaryOutcome, allIncomplete>>
  /\ pollTick' = 0
  /\ gPrompt' = <<>>
  /\ ReturnImages(imgs)

\* the attempt ends with the list of images returned to the controller
ReturnToController(outcome, imgs) ==
  /\ primaryOutcome' = outcome
  /\ allIncomplete' = (allIncomplete /\ outcome = "Success")
  /\ pollTick' = 0
  /\ gPrompt' = <<>>
  /\ ReturnImages(imgs)

\* variant: the snapshot is injected by every call of init()
init_NoEarlyReturn(contextExists) == "read"

\* init(): nothing when a context exists; otherwise the context is opened
\* and injectCookies() reads STATE_FILE
init(contextExists) == IF contextExists THEN "none" ELSE "read"

\* saveState(): nothing without a context; otherwise STATE_FILE is written
saveState(contextExists) == IF contextExists THEN "write" ELSE "none"

\* the controller issues primary attempt number 'attempt'; the generator runs
\* up to its first page load: login() when not logged in (init() first when
\* no context is open), navigateToImageGenerator() otherwise
PrimaryCall ==
  /\ pc = "p_call"
  /\ primaryCalls' = primaryCalls + 1
  /\ idpRedirect' = FALSE
  /\ attemptEvals' = 0
  /\ judgeKind' = "none"
  /\ UNCHANGED <<execVars, outerVars, slideIndex, geminiAttempt, result, isLoggedIn, fallbackCalls>>
  /\ \/ /\ ~isLoggedIn /\ ~contextOpen      \* init() throws
        /\ UNCHANGED contextOpen
        /\ snapshotIO' = "none"
        /\ ThrowToController("Error", MsgBrowserLaunch)
     \/ /\ contextOpen' = TRUE
        /\ snapshotIO' = init(contextOpen)
        /\ gPrompt' = currentPrompt
        /\ pc' = IF isLoggedIn THEN "n_goto" ELSE "l_goto1"
        /\ primaryOutcome' = "pending"
        /\ images' = <<>>
        /\ pollTick' = 0
        /\ UNCHANGED <<controllerVars, allIncomplete>>

\* login(): page.goto of the home page (next = "l_wait1" / "l_goto2") or of
\* the image page (next = "l_wait2" / "l_selector"), then isOnLoginPage()
LoginGoto(at, waitPc, nextPc) ==
  /\ pc = at
  /\ snapshotIO' = "none"
  /\ UNCHANGED <<execVars, outerVars, slideIndex, geminiAttempt, result, isLoggedIn, contextOpen,
                 counters, idpRedirect, attemptEvals, judgeKind>>
  /\ \/ ThrowToController("LoginRequired", MsgLoginFailed)   \* goto throws
     \/ /\ \E onLogin \in LoginProbes : pc' = IF onLogin THEN waitPc ELSE nextPc
        /\ UNCHANGED <<controllerVars, images, pollTick, primaryOutcome, gPrompt, allIncomplete>>

LoginGotoHome == LoginGoto("l_goto1", "l_wait1", "l_goto2")
LoginGotoImagePage == LoginGoto("l_goto2", "l_wait2", "l_selector")

\* login(): while (await this.isOnLoginPage()) { delay }
LoginWait(at, nextPc) ==
  /\ pc = at
  /\ snapshotIO' = "none"
  /\ UNCHANGED <<execVars, outerVars, slideIndex, geminiAttempt, result, isLoggedIn, contextOpen,
                 counters, idpRedirect, attemptEvals, judgeKind, controllerVars,
                 images, primaryOutcome, gPrompt, allIncomplete>>
  /\ \E onLogin \in LoginProbes :
       IF onLogin
       THEN pc' = pc /\ pollTick' = 1 - pollTick
       ELSE pc' = nextPc /\ pollTick' = 0

LoginWaitHome == LoginWait("l_wait1", "l_goto2")
LoginWaitImagePage == LoginWait("l_wait2", "l_selector")

\* login(): waitForSelector('textarea'); on success saveState(), isLoggedIn,
\* and generateCarouselImages goes on to navigateToImageGenerator()
LoginSelector ==
  /\ pc = "l_selector"
  /\ UNCHANGED <<execVars, outerVars, slideIndex, geminiAttempt, result, contextOpen, counters,
                 idpRedirect, attemptEvals, judgeKind>>
  /\ \/ /\ UNCHANGED isLoggedIn                              \* selector times out
        /\ snapshotIO' = "none"
        /\ ThrowToController("LoginRequired", MsgLoginFailed)
     \/ /\ isLoggedIn' = TRUE
        /\ snapshotIO' = saveState(contextOpen)
        /\ pc' = "n_goto"
        /\ UNCHANGED <<controllerVars, images, pollTick, primaryOutcome, gPrompt, allIncomplete>>

\* navigateToImageGenerator() called by generateCarouselImages
Navigate ==
  /\ pc = "n_goto"
  /\ snapshotIO' = "none"
  /\ UNCHANGED <<execVars, outerVars, slideIndex, geminiAttempt, result, isLoggedIn, contextOpen,
                 counters, idpRedirect, attemptEvals, judgeKind>>
  /\ \/ ThrowToController("NavigationError", MsgNavigationFailed) \* goto/selector throws
     \/ \E onLogin \in LoginProbes :
          IF onLogin
          THEN ThrowToController("SessionExpired", MsgNavigationFailed)
          ELSE /\ pc' = "gi_type"
               /\ UNCHANGED <<controllerVars, images, pollTick, primaryOutcome, gPrompt, allIncomplete>>

\* generateImage(): everything up to and including the first humanType()
TypePrompt ==
  /\ pc = "gi_type"
  /\ snapshotIO' = "none"
  /\ UNCHANGED <<execVars, outerVars, slideIndex, geminiAttempt, result, isLoggedIn, contextOpen,
                 counters, attemptEvals, judgeKind>>
  /\ \/ /\ UNCHANGED idpRedirect                  \* an error caught by generateImage
        /\ ReturnToController("Error", <<>>)
     \/ /\ \E typingSuccess \in BOOLEAN :
             /\ pc' = IF typingSuccess THEN "gi_submit" ELSE "gi_gwait1"
             /\ idpRedirect' = (idpRedirect \/ ~typingSuccess)
        /\ UNCHANGED <<controllerVars, images, pollTick, primaryOutcome, gPrompt, allIncomplete>>

\* waitForGoogleLogin(): while (true) { delay; if back on Genspark: break },
\* then saveState(), navigateToImageGenerator() and the prompt typed again
GoogleWait(at, nextPc, checksRetry) ==
  /\ pc = at
  /\ UNCHANGED <<execVars, outerVars, slideIndex, geminiAttempt, result, isLoggedIn, contextOpen,
                 counters, idpRedirect, attemptEvals, judgeKind>>
  /\ \E back \in GoogleWaitProbes :
       IF ~back
       THEN /\ pc' = pc /\ pollTick' = 1 - pollTick
            /\ snapshotIO' = "none"
            /\ UNCHANGED <<controllerVars, images, primaryOutcome, gPrompt, allIncomplete>>
       ELSE /\ snapshotIO' = saveState(contextOpen)
            /\ \/ ReturnToController("Error", <<>>)    \* typing throws
               \/ /\ checksRetry                        \* retrySuccess is false
                  /\ ReturnToController("Error", <<>>)
               \/ /\ pc' = nextPc /\ pollTick' = 0
                  /\ UNCHANGED <<controllerVars, images, primaryOutcome, gPrompt, allIncomplete>>

GoogleWaitTyping == GoogleWait("gi_gwait1", "gi_submit", TRUE)
GoogleWaitSubmitted == GoogleWait("gi_gwait2", "gi_wait_image", FALSE)

\* generateImage(): Enter pressed, then the URL checked for a Google redirect
Submit ==
  /\ pc = "gi_submit"
  /\ snapshotIO' = "none"
  /\ UNCHANGED <<execVars, outerVars, slideIndex, geminiAttempt, result, isLoggedIn, contextOpen,
                 counters, attemptEvals, judgeKind>>
  /\ \/ /\ UNCHANGED idpRedirect                  \* an error caught by generateImage
        /\ ReturnToController("Error", <<>>)
     \/ /\ \E redirected \in RedirectProbes :
             /\ pc' = IF redirected THEN "gi_gwait2" ELSE "gi_wait_image"
             /\ idpRedirect' = (idpRedirect \/ redirected)
        /\ UNCHANGED <<controllerVars, images, pollTick, primaryOutcome, gPrompt, allIncomplete>>

\* waitForImageGeneration(): a saved image file, or null at the timeout
WaitImage ==
  /\ pc = "gi_wait_image"
  /\ snapshotIO' = "none"
  /\ UNCHANGED <<execVars, outerVars, slideIndex, geminiAttempt, result, isLoggedIn, contextOpen,
                 counters, idpRedirect, attemptEvals, judgeKind>>
  /\ \/ ReturnToController("Success", <<ImagePath("genspark", attempt)>>)
     \/ ReturnToController("Timeout", <<>>)

(* ---------------------------------------------------------------------- *)
(* Controller: quality check of a generated image                         *)
(* ---------------------------------------------------------------------- *)
\* the code after  await imageQualityEvaluator.evaluateImage(...)
EvaluateStep(resp, qualityResult) ==
  /\ pc = "c_evaluate"
  /\ snapshotIO' = "none"
  /\ attemptEvals' = attemptEvals + 1
  /\ judgeKind' = resp.kind
  /\ allIncomplete' = (allIncomplete /\ ~qualityResult.checks["textComplete"])
  /\ lastQualityResult' = <<qualityResult>>
  /\ UNCHANGED <<execVars, outerVars, slideIndex, geminiAttempt, isLoggedIn, contextOpen, gPrompt, images,
                 pollTick, primaryCalls, fallbackCalls, primaryOutcome, idpRedirect,
                 gensparkFatalError>>
  /\ IF GateDecision(qualityResult) = "accept"
     THEN /\ result' = [status |-> "accepted", imagePath |-> FirstImage(images),
                        qualityResult |-> <<qualityResult>>]
          /\ pc' = "done"
          /\ UNCHANGED <<attempt, currentPrompt>>
     ELSE /\ result' = result
          /\ IF MayRetry(attempt)
             THEN /\ currentPrompt' =
                       generateFixedPrompt(RepairBase(prompt, currentPrompt), qualityResult)
                  /\ attempt' = attempt + 1
                  /\ pc' = IF LoopContinues(attempt + 1) THEN "p_call"
                                                         ELSE AfterLoop(gensparkFatalError)
             ELSE /\ pc' = AfterLoop(gensparkFatalError)
                  /\ UNCHANGED <<attempt, currentPrompt>>

\* await evaluateImage(...) answered by the judge with a score among 'scores'
\* await evaluateImage(...) answered by the judge with one of 'responses'
EvaluateAnswered(responses) ==
  /\ pc = "c_evaluate"
  /\ \E resp \in responses :
       EvaluateStep(resp, evaluateImage(FirstImage(images), resp))

EvaluateWith(scores) ==
  /\ pc = "c_evaluate"
  /\ \E kind \in JudgeKinds :
       \E checks \in ChecksOf(kind) :
         \E score \in ScoresOf(kind, scores) :
           EvaluateStep(JudgeResponse(kind, checks, score),
                        evaluateImage(FirstImage(images), JudgeResponse(kind, checks, score)))

Evaluate == EvaluateWith(ScoreSamples)

(* ---------------------------------------------------------------------- *)
(* Controller: Gemini fallback                                            *)
(* ---------------------------------------------------------------------- *)
\* variant: the Gemini loop gives up one attempt early
GeminiLoopContinues_Early(g) == g < MAX_GEMINI_ATTEMPTS

\* loop test of  for (geminiAttempt = 1; geminiAttempt <= 3; geminiAttempt++)
GeminiLoopContinues(g) == g <= MAX_GEMINI_ATTEMPTS

\* one call of generateBackgroundWithImagen3 and the code after it; 'failure'
\* is the error thrown when the loop is exhausted
Fallback(at, failure) ==
  /\ pc = at
  /\ snapshotIO' = "none"
  /\ fallbackCalls' = fallbackCalls + 1
  /\ UNCHANGED <<execVars, outerVars, slideIndex, controllerVars, isLoggedIn, contextOpen, gPrompt, images,
                 pollTick, primaryCalls, primaryOutcome, idpRedirect, attemptEvals,
                 judgeKind, allIncomplete>>
  /\ \E backend \in {"success", "noImage", "throws"} :
       IF backend = "success"
       THEN /\ result' = [status |-> "accepted",
                          imagePath |-> ImagePath("gemini", geminiAttempt),
                          qualityResult |-> <<>>]
            /\ pc' = "done"
            /\ UNCHANGED geminiAttempt
       ELSE /\ geminiAttempt' = geminiAttempt + 1
            /\ IF GeminiLoopContinues(geminiAttempt + 1)
               THEN pc' = pc /\ result' = result
               ELSE /\ pc' = "done"
                    /\ result' = [status |-> failure, imagePath |-> <<>>,
                                   qualityResult |-> <<>>]

\* Gemini loop of the  if (gensparkFatalError)  branch
FallbackAfterLoginFailure == Fallback("f_login", "fatal_session")

\* Gemini loop after the quality failure
FallbackAfterQualityFailure == Fallback("f_quality", "exhausted")

(* ---------------------------------------------------------------------- *)
(* execute: the loop over the slides                                      *)
(* ---------------------------------------------------------------------- *)
\* generateImageWithQualityCheck is entered for slide i
StartRequest(i) ==
  /\ slideIndex' = i
  /\ pc' = "p_call"
  /\ attempt' = 1
  /\ currentPrompt' = prompt
  /\ lastQualityResult' = <<>>
  /\ gensparkFatalError' = FALSE
  /\ geminiAttempt' = 1
  /\ result' = NoResult
  /\ gPrompt' = <<>>
  /\ images' = <<>>
  /\ primaryCalls' = 0
  /\ fallbackCalls' = 0
  /\ primaryOutcome' = "none"
  /\ idpRedirect' = FALSE
  /\ attemptEvals' = 0
  /\ judgeKind' = "none"
  /\ allIncomplete' = TRUE
  /\ snapshotIO' = "none"
  /\ UNCHANGED <<isLoggedIn, contextOpen, pollTick, outerVars>>

\* the request returned: the next slide is requested on the same generator
\* (the results of the slides are kept in ExecSpec only, by SlideReturned)
NextSlide ==
  /\ pc = "done"
  /\ result.status = "accepted"
  /\ slideIndex + 1 < MaxSlides
  /\ StartRequest(slideIndex + 1)
  /\ UNCHANGED execVars

\* the request of the last slide returned
AllSlidesGenerated ==
  /\ pc = "done"
  /\ result.status = "accepted"
  /\ slideIndex + 1 = MaxSlides
  /\ pc' = "images_done"
  /\ snapshotIO' = "none"
  /\ UNCHANGED <<execVars, outerVars, slideIndex, controllerVars, geminiAttempt, result, isLoggedIn,
                 contextOpen, gPrompt, images, pollTick, counters, primaryOutcome,
                 idpRedirect, attemptEvals, judgeKind, allIncomplete>>

\* the catch block of execute: gensparkPlaywright.close() and the failure returned
ExecuteFails ==
  /\ snapshotIO' = saveState(contextOpen)
  /\ contextOpen' = FALSE
  /\ execResult' = <<FailureResult>>

\* the request raised: gensparkPlaywright.close(), the error thrown again and
\* caught by execute, which returns the failure
AbortRun ==
  /\ pc = "done"
  /\ result.status \in {"exhausted", "fatal_session"}
  /\ ExecuteFails
  /\ pc' = "aborted"
  /\ UNCHANGED <<generatedImages, qualityResults, finalImages, composeMode, composeIdx,
                 composeRouted, publicUrls, historyWritten, scheduled>>
  /\ UNCHANGED <<outerVars, slideIndex, controllerVars, geminiAttempt, result, isLoggedIn,
                 gPrompt, images, pollTick, counters, primaryOutcome, idpRedirect,
                 attemptEvals, judgeKind, allIncomplete>>

Next ==
  \/ PrimaryCall
  \/ LoginGotoHome
  \/ LoginWaitHome
  \/ LoginGotoImagePage
  \/ LoginWaitImagePage
  \/ LoginSelector
  \/ Navigate
  \/ TypePrompt
  \/ GoogleWaitTyping
  \/ Submit
  \/ GoogleWaitSubmitted
  \/ WaitImage
  \/ Evaluate
  \/ FallbackAfterLoginFailure
  \/ FallbackAfterQualityFailure
  \/ NextSlide
  \/ AllSlidesGenerated
  \/ AbortRun

Spec == Init /\ [][Next]_vars

(* ---------------------------------------------------------------------- *)
(* The quality gate on its own: an image of primary attempt n is about to  *)
(* be judged (attempts 1..n-1 timed out), and the judge answers any score  *)
(* ---------------------------------------------------------------------- *)
GateInit ==
  /\ pc = "c_evaluate"
  /\ slideIndex = 0
  /\ attempt \in 1..MAX_RETRIES
  /\ currentPrompt = prompt
  /\ lastQualityResult = <<>>
  /\ gensparkFatalError = FALSE
  /\ geminiAttempt = 1
  /\ result = NoResult
  /\ isLoggedIn = TRUE
  /\ contextOpen = TRUE
  /\ gPrompt = <<>>
  /\ images = <<ImagePath("genspark", attempt)>>
  /\ pollTick = 0
  /\ primaryCalls = attempt
  /\ fallbackCalls = 0
  /\ primaryOutcome = "Success"
  /\ idpRedirect = FALSE
  /\ attemptEvals = 0
  /\ judgeKind = "none"
  /\ allIncomplete = (attempt = 1)
  /\ NoExecution
  /\ RequestsOnly

GateEvaluate == EvaluateWith(AllScores)

GateNext == GateEvaluate

GateSpec == GateInit /\ [][GateNext]_vars

(* ---------------------------------------------------------------------- *)
(* generateFixedPrompt on its own: called with any prompt of the          *)
(* controller and a report with any combination of the checks             *)
(* ---------------------------------------------------------------------- *)
FixReports ==
  {[isValid |-> \A c \in CheckNames : checks[c], score |-> score, checks |-> checks] :
     checks \in AllChecks, score \in ScoreSamples}

FixInit ==
  /\ pc = "fix_call"
  /\ slideIndex = 0
  /\ attempt = 1
  /\ currentPrompt \in {prompt} \cup {<<f>> \o prompt : f \in FixPrefixes}
  /\ lastQualityResult \in {<<r>> : r \in FixReports}
  /\ gensparkFatalError = FALSE
  /\ geminiAttempt = 1
  /\ result = NoResult
  /\ isLoggedIn = TRUE
  /\ contextOpen = TRUE
  /\ gPrompt = <<>>
  /\ images = <<>>
  /\ pollTick = 0
  /\ primaryCalls = 0
  /\ fallbackCalls = 0
  /\ primaryOutcome = "none"
  /\ idpRedirect = FALSE
  /\ attemptEvals = 0
  /\ judgeKind = "json"
  /\ allIncomplete = FALSE
  /\ NoExecution
  /\ RequestsOnly

\* gPrompt receives generateFixedPrompt(currentPrompt, lastQualityResult)
FixCall ==
  /\ pc = "fix_call"
  /\ snapshotIO' = "none"
  /\ gPrompt' = generateFixedPrompt(currentPrompt, lastQualityResult[1])
  /\ pc' = "fix_returned"
  /\ UNCHANGED <<execVars, outerVars, slideIndex, controllerVars, geminiAttempt, result, isLoggedIn,
                 contextOpen, images, pollTick, counters, primaryOutcome, idpRedirect,
                 attemptEvals, judgeKind, allIncomplete>>

FixNext == FixCall

FixSpec == FixInit /\ [][FixNext]_vars

(* ---------------------------------------------------------------------- *)
(* execute from step 5 on: the slides are requested one after the other,  *)
(* their results kept, the final images made, uploaded and scheduled.     *)
(* The judge answers a full report out of a few; slides are numbered      *)
(* from 1                                                                 *)
(* ---------------------------------------------------------------------- *)
ExecChecks ==
  {[c \in CheckNames |-> TRUE],
   [c \in CheckNames |-> c # "textComplete"],
   [c \in CheckNames |-> c # "backgroundValid"]}

ExecJudgeResponses ==
  {JudgeResponse("json", checks, score) : checks \in ExecChecks, score \in ScoreSamples}

ExecEvaluate == EvaluateAnswered(ExecJudgeResponses)

\* the request-level state but pc and contextOpen
requestVars ==
  <<slideIndex, controllerVars, geminiAttempt, result, isLoggedIn, gPrompt, images,
    pollTick, counters, primaryOutcome, idpRedirect, attemptEvals, judgeKind,
    allIncomplete>>

\* files written by step 6
WithTextPath(idx) == <<"slide_with_text", idx>>
SlidePath(i) == <<"slide", i>>
CharacterPath(i) == <<"slide_character", i>>
PublicUrl(image) == <<"url", image>>

\* variant: every slide is taken for a Gemini image once one of them is
imagen3FallbackIndices_All(results) ==
  IF \E i \in 1..Len(results) : results[i] = <<>>
  THEN [i \in 1..Len(results) |-> i]
  ELSE <<>>

\* indices i with qualityResults[i] === null, in increasing order
imagen3FallbackIndices(results) ==
  SelectSeq([i \in 1..Len(results) |-> i], LAMBDA i : results[i] = <<>>)

\* generatedImages.push(result.imagePath); qualityResults.push(result.qualityResult)
PushResult ==
  /\ generatedImages' = Append(generatedImages, result.imagePath)
  /\ qualityResults' = Append(qualityResults, result.qualityResult)

\* the request of a slide that is not the last returned
SlideReturned ==
  /\ pc = "done"
  /\ result.status = "accepted"
  /\ slideIndex + 1 < MaxSlides
  /\ PushResult
  /\ StartRequest(slideIndex + 1)
  /\ UNCHANGED <<finalImages, composeMode, composeIdx, composeRouted, publicUrls,
                 historyWritten, scheduled, execResult>>

\* the request of the last slide returned: the number of images is checked,
\* the Gemini images are looked up and the branch of step 6 is entered
LastSlideReturned ==
  /\ pc = "done"
  /\ result.status = "accepted"
  /\ slideIndex + 1 = MaxSlides
  /\ PushResult
  /\ UNCHANGED <<requestVars, outerVars, composeIdx, composeRouted, publicUrls, historyWritten,
                 scheduled>>
  /\ IF Len(generatedImages') # MaxSlides
     THEN /\ ExecuteFails
          /\ pc' = "x_failed"
          /\ UNCHANGED <<finalImages, composeMode>>
     ELSE /\ snapshotIO' = "none"
          /\ UNCHANGED <<contextOpen, execResult>>
          /\ IF Len(imagen3FallbackIndices(qualityResults')) > 0
             THEN /\ composeMode' = "fallbackText"
                  /\ finalImages' = generatedImages'
                  /\ pc' = "x_text"
             ELSE \E directTextRendering \in BOOLEAN :
                    IF directTextRendering
                    THEN /\ composeMode' = "direct"
                         /\ finalImages' = generatedImages'
                         /\ pc' = "x_copy"
                    ELSE /\ composeMode' = "html"
                         /\ finalImages' = <<>>
                         /\ pc' = "x_html"

\* step 6, Gemini images present: one turn of the loop over
\* imagen3FallbackIndices; a failing render is logged and the background kept
TextCompose ==
  /\ pc = "x_text"
  /\ snapshotIO' = "none"
  /\ LET idx == imagen3FallbackIndices(qualityResults)[composeIdx]
     IN  /\ composeRouted' = composeRouted \cup {idx}
         /\ \/ finalImages' = [finalImages EXCEPT ![idx] = WithTextPath(idx)]
            \/ UNCHANGED finalImages           \* render...Slide throws
  /\ composeIdx' = composeIdx + 1
  /\ pc' = IF composeIdx = Len(imagen3FallbackIndices(qualityResults))
           THEN "x_upload" ELSE pc
  /\ UNCHANGED <<requestVars, outerVars, contextOpen, generatedImages, qualityResults, composeMode,
                 publicUrls, historyWritten, scheduled, execResult>>

\* step 6, directTextRendering: the Genspark images are copied as they are
DirectCopy ==
  /\ pc = "x_copy"
  /\ UNCHANGED <<requestVars, outerVars, generatedImages, qualityResults, composeMode, composeIdx,
                 composeRouted, publicUrls, historyWritten, scheduled>>
  /\ \/ /\ finalImages' = [i \in 1..Len(finalImages) |-> SlidePath(i)]
        /\ pc' = "x_upload"
        /\ snapshotIO' = "none"
        /\ UNCHANGED <<contextOpen, execResult>>
     \/ /\ ExecuteFails                          \* mkdir or copyFile throws
        /\ pc' = "x_failed"
        /\ UNCHANGED finalImages

\* step 6 otherwise: htmlComposer.generateCarouselSlides renders every slide
\* on its image, then the characters are composited if useCharacters
HtmlCompose ==
  /\ pc = "x_html"
  /\ UNCHANGED <<requestVars, outerVars, generatedImages, qualityResults, composeMode, composeIdx,
                 publicUrls, historyWritten, scheduled>>
  /\ \/ /\ composeRouted' = 1..Len(generatedImages)
        /\ \E useCharacters \in BOOLEAN :
             finalImages' = [i \in 1..Len(generatedImages) |->
                               IF useCharacters THEN CharacterPath(i) ELSE SlidePath(i)]
        /\ pc' = "x_upload"
        /\ snapshotIO' = "none"
        /\ UNCHANGED <<contextOpen, execResult>>
     \/ /\ ExecuteFails                          \* a render or the compositor throws
        /\ pc' = "x_failed"
        /\ UNCHANGED <<finalImages, composeRouted>>

\* step 7: ftpUploader.uploadCarouselImages(finalImages) unless skipUpload
Upload ==
  /\ pc = "x_upload"
  /\ UNCHANGED <<requestVars, outerVars, generatedImages, qualityResults, finalImages, composeMode,
                 composeIdx, composeRouted, historyWritten, scheduled>>
  /\ \/ /\ \E skipUpload \in BOOLEAN :
             publicUrls' = IF skipUpload THEN <<>>
                           ELSE [i \in 1..Len(finalImages) |-> PublicUrl(finalImages[i])]
        /\ pc' = "x_history"
        /\ snapshotIO' = "none"
        /\ UNCHANGED <<contextOpen, execResult>>
     \/ /\ ExecuteFails                          \* the upload throws
        /\ pc' = "x_failed"
        /\ UNCHANGED publicUrls

\* postHistory.addPost; its failure is logged only
AddPost ==
  /\ pc = "x_history"
  /\ snapshotIO' = "none"
  /\ historyWritten' \in BOOLEAN
  /\ pc' = "x_publer"
  /\ UNCHANGED <<requestVars, outerVars, contextOpen, generatedImages, qualityResults, finalImages,
                 composeMode, composeIdx, composeRouted, publicUrls, scheduled, execResult>>

\* step 8: Publer when there are public URLs (its failure is logged only),
\* and the successful result returned
Schedule ==
  /\ pc = "x_publer"
  /\ snapshotIO' = "none"
  /\ IF Len(publicUrls) > 0
     THEN scheduled' \in {<<>>, <<publicUrls>>}
     ELSE UNCHANGED scheduled
  /\ execResult' = <<[success |-> TRUE, localImages |-> finalImages,
                       publicUrls |-> publicUrls]>>
  /\ pc' = "x_returned"
  /\ UNCHANGED <<requestVars, outerVars, contextOpen, generatedImages, qualityResults, finalImages,
                 composeMode, composeIdx, composeRouted, publicUrls, historyWritten>>

\* the options of execute that decide which of steps 0 and 1 are run
StageOptions ==
  [skipNotebookLm : BOOLEAN, skipNewsResearch : BOOLEAN, externalNewsInfo : BOOLEAN]

\* variant: the debug option that skips the news research skips the blog too
BlogStage_SkippedWithNews(options) ==
  IF options.skipNewsResearch THEN "x_summary" ELSE "x_blog"

\* where execute goes after steps 0 and 1: step 2 whatever the options
BlogStage(options) == "x_blog"

\* a stretch of execute before step 5: it ends at 'next' with the blog in
\* state 'blogAfter', or it throws into the catch block
Stage(at, next, blogAfter) ==
  /\ pc = at
  /\ UNCHANGED <<requestVars, callArgs, callResult, generatedImages, qualityResults,
                 finalImages, composeMode, composeIdx, composeRouted, publicUrls,
                 historyWritten, scheduled>>
  /\ \/ /\ pc' = next
        /\ blog' = blogAfter
        /\ snapshotIO' = "none"
        /\ UNCHANGED <<contextOpen, execResult>>
     \/ /\ ExecuteFails
        /\ pc' = "x_failed"
        /\ UNCHANGED blog

\* steps 0 and 1 and the characters: NotebookLM (its error is caught), the
\* news given, researched or replaced by the default topic
Research == \E options \in StageOptions : Stage("x_start", BlogStage(options), blog)

\* step 2-1: blogGenerator.generateBlogFromNews
GenerateBlog == Stage("x_blog", "x_save", "generated")

\* step 2-2: blogGenerator.saveBlog
SaveBlog == Stage("x_save", "x_summary", "saved")

\* steps 3 and 4: the Instagram summary, the four slides and their prompts;
\* then the loop of step 5 is entered
PreparePrompts == Stage("x_summary", "p_call", blog)

\* execute is called
ExecInit ==
  /\ pc = "x_start"
  /\ slideIndex = 0
  /\ attempt = 1
  /\ currentPrompt = prompt
  /\ lastQualityResult = <<>>
  /\ gensparkFatalError = FALSE
  /\ geminiAttempt = 1
  /\ result = NoResult
  /\ isLoggedIn = FALSE
  /\ contextOpen = FALSE
  /\ gPrompt = <<>>
  /\ images = <<>>
  /\ pollTick = 0
  /\ primaryCalls = 0
  /\ fallbackCalls = 0
  /\ primaryOutcome = "none"
  /\ idpRedirect = FALSE
  /\ attemptEvals = 0
  /\ judgeKind = "none"
  /\ allIncomplete = TRUE
  /\ NoExecution
  /\ snapshotIO = "none"
  /\ blog = "none"
  /\ callArgs = <<>>
  /\ callResult = <<>>

ExecNext ==
  \/ Research
  \/ GenerateBlog
  \/ SaveBlog
  \/ PreparePrompts
  \/ PrimaryCall
  \/ LoginGotoHome
  \/ LoginWaitHome
  \/ LoginGotoImagePage
  \/ LoginWaitImagePage
  \/ LoginSelector
  \/ Navigate
  \/ TypePrompt
  \/ GoogleWaitTyping
  \/ Submit
  \/ GoogleWaitSubmitted
  \/ WaitImage
  \/ ExecEvaluate
  \/ FallbackAfterLoginFailure
  \/ FallbackAfterQualityFailure
  \/ SlideReturned
  \/ LastSlideReturned
  \/ AbortRun
  \/ TextCompose
  \/ DirectCopy
  \/ HtmlCompose
  \/ Upload
  \/ AddPost
  \/ Schedule

ExecSpec == ExecInit /\ [][ExecNext]_vars

(* ---------------------------------------------------------------------- *)
(* Functions called on their own: callArgs holds the input, callResult    *)
(* receives what the function returns                                     *)
(* ---------------------------------------------------------------------- *)
\* no request is in progress; the function at 'at' is about to be called
CallInit(at) ==
  /\ pc = at
  /\ slideIndex = 0
  /\ attempt = 1
  /\ currentPrompt = prompt
  /\ lastQualityResult = <<>>
  /\ gensparkFatalError = FALSE
  /\ geminiAttempt = 1
  /\ result = NoResult
  /\ isLoggedIn = FALSE
  /\ contextOpen = TRUE
  /\ gPrompt = <<>>
  /\ images = <<>>
  /\ pollTick = 0
  /\ primaryCalls = 0
  /\ fallbackCalls = 0
  /\ primaryOutcome = "none"
  /\ idpRedirect = FALSE
  /\ attemptEvals = 0
  /\ judgeKind = "none"
  /\ allIncomplete = TRUE
  /\ NoExecution
  /\ snapshotIO = "none"
  /\ blog = "none"
  /\ callResult = <<>>

\* the call returns 'value'
CallReturns(value, returnedPc) ==
  /\ callResult' = <<value>>
  /\ pc' = returnedPc
  /\ UNCHANGED <<slideIndex, controllerVars, geminiAttempt, result, isLoggedIn,
                 contextOpen, gPrompt, images, counters, primaryOutcome, idpRedirect,
                 attemptEvals, judgeKind, allIncomplete, execVars, snapshotIO, blog,
                 callArgs>>

\* isOnLoginPage() on any page
PageInit == CallInit("lp_call") /\ callArgs \in {<<page>> : page \in Pages}

IsOnLoginPageCall ==
  /\ pc = "lp_call"
  /\ CallReturns(isOnLoginPage(callArgs[1]), "lp_returned")
  /\ UNCHANGED pollTick

PageNext == IsOnLoginPageCall

PageSpec == PageInit /\ [][PageNext]_vars

\* waitForImageGeneration() on a page whose img elements stay as they are.
\* An element: natural and displayed size, the word its src contains, the
\* scheme of its src, whether it is in the asset panel, and whether the
\* download or the screenshot of it gives a file of more than 30000 bytes
NaturalSizes == {<<299, 500>>, <<300, 300>>, <<500, 500>>}
DisplaySizes == {<<149, 150>>, <<150, 150>>}
SrcWords == {"none", "avatar", "logo", "icon"}
SrcSchemes == {"blob:", "http"}

ImgInfos ==
  [natural : NaturalSizes, display : DisplaySizes, srcWord : SrcWords,
   srcScheme : SrcSchemes, isInAssetPanel : BOOLEAN, saves : BOOLEAN]

ImgLists == UNION {[1..n -> ImgInfos] : n \in 0..MaxImgs}

\* the tests that make the loop skip an element
Skipped(info) ==
  \/ info.natural[1] < MIN_NATURAL \/ info.natural[2] < MIN_NATURAL
  \/ info.display[1] < MIN_DISPLAY \/ info.display[2] < MIN_DISPLAY
  \/ info.srcWord = "avatar" \/ info.srcWord = "logo"

isGenerated(info) ==
  \/ info.isInAssetPanel
  \/ info.srcScheme = "blob:"
  \/ info.natural[1] >= MIN_GENERATED /\ info.natural[2] >= MIN_GENERATED

\* imageInfos.sort: asset panel first, then the larger area (the sort is stable)
SortsBefore(infos, i, j) ==
  LET a == infos[i]
      b == infos[j]
      areaA == a.natural[1] * a.natural[2]
      areaB == b.natural[1] * b.natural[2]
  IN  \/ a.isInAssetPanel /\ ~b.isInAssetPanel
      \/ /\ a.isInAssetPanel = b.isInAssetPanel
         /\ \/ areaA > areaB
            \/ areaA = areaB /\ i < j

\* the elements one pass of the loop would save
Saved(infos) ==
  {i \in 1..Len(infos) : ~Skipped(infos[i]) /\ isGenerated(infos[i]) /\ infos[i].saves}

\* one pass over the sorted elements: <<>> or <<the element that was saved>>
ScanImages(infos) ==
  IF Saved(infos) = {} THEN <<>>
  ELSE LET first == CHOOSE i \in Saved(infos) :
                      \A j \in Saved(infos) \ {i} : SortsBefore(infos, i, j)
       IN  <<infos[first]>>

ImageWaitInit == CallInit("wi_poll") /\ callArgs \in {<<infos>> : infos \in ImgLists}

\* one turn of the while loop: an image is saved and returned, or the loop
\* goes on
WaitPoll ==
  /\ pc = "wi_poll"
  /\ IF ScanImages(callArgs[1]) # <<>>
     THEN /\ CallReturns(ScanImages(callArgs[1]), "wi_returned")
          /\ UNCHANGED pollTick
     ELSE /\ pollTick' = 1 - pollTick
          /\ UNCHANGED <<pc, callResult, slideIndex, controllerVars, geminiAttempt,
                         result, isLoggedIn, contextOpen, gPrompt, images, counters,
                         primaryOutcome, idpRedirect, attemptEvals, judgeKind,
                         allIncomplete, execVars, snapshotIO, blog, callArgs>>

\* IMAGE_GENERATION_TIMEOUT has passed at the loop test, which comes after
\* at least one pass that saved nothing: null is returned
WaitTimeout ==
  /\ pc = "wi_poll"
  /\ ScanImages(callArgs[1]) = <<>>
  /\ CallReturns(<<>>, "wi_returned")
  /\ pollTick' = 0

ImageWaitNext == WaitPoll \/ WaitTimeout

ImageWaitSpec == ImageWaitInit /\ [][ImageWaitNext]_vars

\* adjustSlidesToFourSlides() on any list of slides. A slide: its type and
\* the place it had in the input (0 for the slide made up to fill the list)
SlideTypes == {"cover", "content", "thanks"}

SlideLists ==
  UNION {{[i \in 1..n |-> [type |-> types[i], source |-> i]] :
            types \in [1..n -> SlideTypes]} : n \in 0..MaxInputSlides}

FillerSlide == [type |-> "content", source |-> 0]

\* slides.find(s => s.type === 'cover'): 0 stands for undefined
FindCover(slides) ==
  LET covers == {i \in 1..Len(slides) : slides[i].type = "cover"}
  IN  IF covers = {} THEN 0 ELSE CHOOSE i \in covers : \A j \in covers : i <= j

IsContent(slide) == slide.type = "content"

adjustSlidesToFourSlides(slides) ==
  LET cover == FindCover(slides)
      first == IF cover # 0 THEN <<slides[cover]>>
               ELSE IF Len(slides) > 0 THEN <<[slides[1] EXCEPT !.type = "cover"]>>
               ELSE <<>>
      contentSlides == SelectSeq(slides, IsContent)
      taken == IF Len(contentSlides) < CONTENT_SLIDES THEN Len(contentSlides)
               ELSE CONTENT_SLIDES
      picked == first \o SubSeq(contentSlides, 1, taken)
  IN  IF Len(picked) < SLIDES_PER_POST
      THEN picked \o [i \in 1..(SLIDES_PER_POST - Len(picked)) |-> FillerSlide]
      ELSE picked

AdjustInit == CallInit("as_call") /\ callArgs \in {<<slides>> : slides \in SlideLists}

AdjustCall ==
  /\ pc = "as_call"
  /\ CallReturns(adjustSlidesToFourSlides(callArgs[1]), "as_returned")
  /\ UNCHANGED pollTick

AdjustNext == AdjustCall

AdjustSpec == AdjustInit /\ [][AdjustNext]_vars

\* the runtime resumes every suspended step; nothing obliges the page, the
\* judge or the backend to answer one way rather than another
FairSpec == Spec /\ WF_vars(Next)

(* ---------------------------------------------------------------------- *)
(* Properties                                                             *)
(* ---------------------------------------------------------------------- *)

\* C1: one request issues at most 5 Genspark attempts and at most 3 Gemini
\* attempts, hence at most 8 generation attempts in all
C1_AttemptsBounded ==
  /\ primaryCalls <= 5
  /\ fallbackCalls <= 3
  /\ primaryCalls + fallbackCalls <= 8

\* a request that used all 5 Genspark attempts and all 3 Gemini attempts
C1_Witness ==
  pc = "done" /\ result.status = "exhausted" /\ primaryCalls = 5 /\ fallbackCalls = 3

\* C2: a Genspark attempt whose report has a strict check false is never
\* accepted, whatever its score: before the last attempt it is retried, on
\* the last attempt the request goes on to the fallback phase
C2_StrictFailureNeverAccepted ==
  (/\ attemptEvals = 1
   /\ \E c \in {"textPresent", "textComplete", "characterPresent", "characterFeatures"} :
        ~lastQualityResult[1].checks[c])
  => /\ ~(result.status = "accepted" /\ result.qualityResult # <<>>)
     /\ IF primaryCalls < 5
        THEN pc = "p_call" /\ attempt = primaryCalls + 1
        ELSE pc \in {"f_quality", "done", "images_done", "aborted"} /\ ~gensparkFatalError

\* the last attempt rejected for its character features in spite of score 100
C2_Witness ==
  /\ attemptEvals = 1
  /\ primaryCalls = 5
  /\ pc = "f_quality"
  /\ lastQualityResult[1].score = 100
  /\ ~lastQualityResult[1].checks["characterFeatures"]
  /\ \A c \in CheckNames \ {"characterFeatures"} : lastQualityResult[1].checks[c]

\* C3 as stated: with the four strict checks true and backgroundValid or
\* compositionValid false, the attempt is accepted iff its score is >= 65
C3_LenientFailureIffThreshold ==
  (/\ attemptEvals = 1
   /\ \A c \in {"textPresent", "textComplete", "characterPresent", "characterFeatures"} :
        lastQualityResult[1].checks[c]
   /\ \/ ~lastQualityResult[1].checks["backgroundValid"]
      \/ ~lastQualityResult[1].checks["compositionValid"])
  => ((result.status = "accepted" /\ result.qualityResult = lastQualityResult)
        <=> lastQualityResult[1].score >= 65)

\* C3 amended: with the four strict checks true, an attempt whose
\* backgroundValid is false is accepted iff its score is >= 65, whatever
\* compositionValid is; one whose backgroundValid is true is accepted at
\* every score, also when compositionValid is false
C3_BackgroundFailureIffThreshold ==
  (/\ attemptEvals = 1
   /\ \A c \in {"textPresent", "textComplete", "characterPresent", "characterFeatures"} :
        lastQualityResult[1].checks[c])
  => IF lastQualityResult[1].checks["backgroundValid"]
     THEN result.status = "accepted" /\ result.qualityResult = lastQualityResult
     ELSE (result.status = "accepted" /\ result.qualityResult = lastQualityResult)
            <=> lastQualityResult[1].score >= 65

\* background and composition both failed, score exactly 65: accepted
C3_Witness ==
  /\ attemptEvals = 1
  /\ \A c \in {"textPresent", "textComplete", "characterPresent", "characterFeatures"} :
       lastQualityResult[1].checks[c]
  /\ ~lastQualityResult[1].checks["backgroundValid"]
  /\ ~lastQualityResult[1].checks["compositionValid"]
  /\ lastQualityResult[1].score = 65
  /\ result.status = "accepted"

\* C4: the prompt of every Genspark attempt is the original prompt or one
\* corrective prefix followed by the original prompt, and attempt 1 uses the
\* original prompt
C4_PromptHasAtMostOnePrefix ==
  /\ \/ currentPrompt = prompt
     \/ \E f \in FixPrefixes : currentPrompt = <<f>> \o prompt
  /\ primaryOutcome = "pending" =>
       /\ gPrompt = currentPrompt
       /\ primaryCalls = 1 => gPrompt = prompt

\* the fifth attempt, after four rejections, submitted with a single prefix
C4_Witness ==
  /\ primaryOutcome = "pending"
  /\ primaryCalls = 5
  /\ Len(gPrompt) = 2
  /\ lastQualityResult # <<>>

\* C5: after a Genspark attempt n that failed with a login-classified error
\* no Genspark attempt follows, the next generation call is Gemini attempt
\* 1, and a request accepted on that Gemini attempt made n + 1 attempts
C5_LoginFailureGoesToFallback ==
  /\ [](primaryOutcome = "LoginRequired" =>
          /\ gensparkFatalError
          /\ pc \in {"f_login", "done", "images_done", "aborted"}
          /\ primaryCalls = attempt
          /\ pc = "f_login" => geminiAttempt = fallbackCalls + 1
          /\ (result.status = "accepted" /\ fallbackCalls = 1) =>
               /\ result.imagePath = ImagePath("gemini", 1)
               /\ primaryCalls + fallbackCalls = attempt + 1)
  /\ [][primaryOutcome = "LoginRequired" /\ slideIndex' = slideIndex
          => primaryCalls' = primaryCalls /\ fallbackCalls' \in {fallbackCalls, fallbackCalls + 1}]_vars

\* login fails on attempt 1 and Gemini succeeds at once: 2 attempts
C5_Witness ==
  /\ primaryOutcome = "LoginRequired"
  /\ pc = "done"
  /\ result.status = "accepted"
  /\ primaryCalls = 1
  /\ fallbackCalls = 1

\* C6: a Genspark attempt that found the session expired, or was sent to the
\* Google login page, is fatal for Genspark: no Genspark attempt follows and
\* the request goes to the fallback of the login failure
C6_SessionExpiryIsFatal ==
  (\/ primaryOutcome = "SessionExpired"
   \/ idpRedirect /\ primaryOutcome \in {"Error", "Timeout"})
  => gensparkFatalError /\ pc \in {"f_login", "done", "images_done", "aborted"}

\* C7: an answer of the judge that cannot be parsed, or a judge call that
\* fails, gives a report with score 0 and the seven checks false, and the
\* controller rejects the attempt and carries on with the request
C7_UnparseableIsRejected ==
  judgeKind \in {"callFails", "noJson", "invalidJson"} =>
    /\ attemptEvals = 1
    /\ lastQualityResult[1].score = 0
    /\ \A c \in CheckNames : ~lastQualityResult[1].checks[c]
    /\ ~lastQualityResult[1].isValid
    /\ ~(result.status = "accepted" /\ result.qualityResult # <<>>)
    /\ IF primaryCalls < 5
       THEN pc = "p_call" /\ result.status = "none"
       ELSE pc \in {"f_quality", "done", "images_done", "aborted"}

\* an answer without JSON on attempt 2: attempt 3 is about to be issued
C7_Witness ==
  /\ judgeKind = "noJson"
  /\ primaryCalls = 2
  /\ pc = "p_call"
  /\ attempt = 3

\* C8: every request terminates, in one of the three outcomes accepted,
\* exhausted retries, fatal session failure
C8_RequestTerminates ==
  /\ [](pc = "done" => result.status \in {"accepted", "exhausted", "fatal_session"})
  /\ (pc \notin {"done", "images_done", "aborted"}) ~> (pc = "done")

C10_CutTextExhaustsAllAttempts ==
  allIncomplete =>
    /\ pc \in {"f_quality", "done", "images_done", "aborted"} => primaryCalls = 5
    /\ pc # "f_login" /\ ~gensparkFatalError
    /\ pc = "f_quality" => fallbackCalls = geminiAttempt - 1 /\ fallbackCalls < 3
    /\ result.status # "accepted" \/ result.qualityResult = <<>>
    /\ result.status # "fatal_session"
    /\ result.status = "exhausted" =>
         primaryCalls = 5 /\ fallbackCalls = 3 /\ primaryCalls + fallbackCalls = 8

\* scenario B ran to its end
C10_Witness ==
  /\ allIncomplete
  /\ pc = "done"
  /\ result.status = "exhausted"
  /\ primaryCalls = 5
  /\ fallbackCalls = 3

\* C11: when Genspark attempt 1 gives an image whose report has the seven
\* checks true, the request is accepted with that image after 1 generation
\* attempt: no second Genspark attempt and no Gemini attempt is issued
C11_FirstAttemptAllTrueAccepted ==
  (/\ primaryCalls = 1
   /\ attemptEvals = 1
   /\ \A c \in CheckNames : lastQualityResult[1].checks[c])
  => /\ pc \in {"done", "images_done"}
     /\ result.status = "accepted"
     /\ result.imagePath = ImagePath("genspark", 1)
     /\ result.qualityResult = lastQualityResult
     /\ attempt = 1
     /\ fallbackCalls = 0
     /\ primaryCalls + fallbackCalls = 1

\* scenario A: the first image of the first slide passes every check
C11_Witness ==
  /\ slideIndex = 0
  /\ primaryCalls = 1
  /\ attemptEvals = 1
  /\ \A c \in CheckNames : lastQualityResult[1].checks[c]
  /\ pc = "done"
  /\ result.status = "accepted"
  /\ result.imagePath = ImagePath("genspark", 1)

C13_OnePrefixByPriority ==
  pc = "fix_returned" =>
    LET checks == lastQualityResult[1].checks
    IN  /\ ~checks["textPresent"] => gPrompt = <<"FIX_TEXT_PRESENT">> \o currentPrompt
        /\ (checks["textPresent"] /\ ~checks["textComplete"])
             => gPrompt = <<"FIX_TEXT_COMPLETE">> \o currentPrompt
        /\ (checks["textPresent"] /\ checks["textComplete"] /\ ~checks["characterPresent"])
             => gPrompt = <<"FIX_CHARACTER_PRESENT">> \o currentPrompt
        /\ (checks["textPresent"] /\ checks["textComplete"] /\ checks["characterPresent"]
              /\ ~checks["characterFeatures"])
             => gPrompt = <<"FIX_CHARACTER_FEATURES">> \o currentPrompt
        /\ (checks["textPresent"] /\ checks["textComplete"] /\ checks["characterPresent"]
              /\ checks["characterFeatures"] /\ ~checks["backgroundValid"])
             => gPrompt = <<"FIX_BACKGROUND">> \o currentPrompt
        /\ (checks["textPresent"] /\ checks["textComplete"] /\ checks["characterPresent"]
              /\ checks["characterFeatures"] /\ checks["backgroundValid"])
             => gPrompt = currentPrompt
        /\ Len(gPrompt) <= Len(currentPrompt) + 1

\* all five checks false: only the instruction for the missing text is added
C13_Witness ==
  /\ pc = "fix_returned"
  /\ \A c \in CheckNames : ~lastQualityResult[1].checks[c]
  /\ currentPrompt = prompt
  /\ gPrompt = <<"FIX_TEXT_PRESENT", "ORIGINAL">>

\* C14 as stated: the Gemini backend is called for a request only after a
\* Genspark attempt of the request ended in a login failure
C14_FallbackOnlyAfterFatal ==
  fallbackCalls > 0 => gensparkFatalError

\* C14 amended: the Gemini backend is called for a request only after the
\* Genspark loop has ended: on a login-classified error, or after the 5
\* Genspark attempts all ended without an image or with a rejected image
C14_FallbackOnlyAfterLoop ==
  (fallbackCalls > 0 \/ pc \in {"f_login", "f_quality"}) =>
    /\ primaryOutcome \notin {"none", "pending"}
    /\ pc # "c_evaluate"
    /\ \/ gensparkFatalError /\ primaryOutcome = "LoginRequired"
       \/ /\ ~gensparkFatalError
          /\ primaryCalls = 5
          /\ primaryOutcome = "Success" =>
               attemptEvals = 1 /\ GateDecision(lastQualityResult[1]) = "reject"
    /\ result.status = "accepted" => result.imagePath[1] = "gemini"

\* Gemini called after five usable Genspark attempts, the last one rejected
C14_Witness ==
  /\ fallbackCalls = 1
  /\ ~gensparkFatalError
  /\ primaryCalls = 5
  /\ primaryOutcome = "Success"
  /\ attemptEvals = 1

\* C19: generation attempts are sequential: a Genspark or Gemini attempt is
\* issued only when no attempt is in flight and the outcome of the attempt
\* before it is known, with its quality report if it gave an image; the
\* request of the next slide starts only when the request before it returned
C19_AttemptsSequential ==
  /\ [](/\ primaryOutcome = "pending" <=>
             pc \in {"l_goto1", "l_wait1", "l_goto2", "l_wait2", "l_selector", "n_goto",
                     "gi_type", "gi_gwait1", "gi_submit", "gi_gwait2", "gi_wait_image"}
        /\ pc \in {"p_call", "f_login", "f_quality"} =>
             (primaryOutcome = "Success" => attemptEvals = 1))
  /\ [][/\ (primaryCalls' = primaryCalls + 1 \/ fallbackCalls' = fallbackCalls + 1) =>
             /\ primaryOutcome # "pending"
             /\ pc \in {"p_call", "f_login", "f_quality"}
             /\ primaryOutcome = "Success" => attemptEvals = 1
             /\ primaryCalls' + fallbackCalls' = primaryCalls + fallbackCalls + 1
        /\ slideIndex' # slideIndex =>
             /\ slideIndex' = slideIndex + 1
             /\ pc = "done"
             /\ result.status = "accepted"
             /\ primaryOutcome # "pending"]_vars

\* the request of the second slide has its second attempt in flight
C19_Witness ==
  /\ slideIndex = 1
  /\ primaryCalls = 2
  /\ primaryOutcome = "pending"
  /\ lastQualityResult # <<>>

\* C20: a Genspark attempt n < 5 that ended without an image at the end of
\* the wait is followed by Genspark attempt n + 1, issued on the browser
\* context left open: neither close() nor a new login comes in between
C20_TimeoutRetriedOnOpenContext ==
  /\ []((primaryOutcome = "Timeout" /\ primaryCalls < 5) =>
          /\ pc = "p_call"
          /\ attempt = primaryCalls + 1
          /\ contextOpen
          /\ isLoggedIn
          /\ ~gensparkFatalError
          /\ fallbackCalls = 0
          /\ result.status = "none")
  /\ [][(primaryOutcome = "Timeout" /\ primaryCalls < 5) =>
          /\ primaryCalls' = primaryCalls + 1
          /\ primaryOutcome' = "pending"
          /\ pc' = "n_goto"
          /\ contextOpen' /\ isLoggedIn'
          /\ fallbackCalls' = 0]_vars

\* attempt 4 timed out and attempt 5 is about to be issued
C20_Witness ==
  /\ primaryOutcome = "Timeout"
  /\ primaryCalls = 4
  /\ attempt = 5
  /\ pc = "p_call"
  /\ contextOpen

\* C15 as stated: a request returns qualityResult null iff its image came
\* from Gemini, and the slides execute hands to the text compositor are
\* exactly those whose qualityResult is null
C15_NullIffFallbackAndOnlyNullRouted ==
  /\ result.status = "accepted" =>
       (result.qualityResult = <<>> <=> result.imagePath[1] = "gemini")
  /\ pc \in {"x_upload", "x_history", "x_publer", "x_returned"} =>
       composeRouted = {i \in 1..Len(qualityResults) : qualityResults[i] = <<>>}

\* C15 amended: a request returns qualityResult null iff its image came from
\* Gemini; when a slide of the run has qualityResult null the slides handed
\* to the text compositor are exactly those with null; when none has, every
\* slide is handed to it, unless directTextRendering, and then none is
C15_NullIffFallbackRoutedByMode ==
  /\ result.status = "accepted" =>
       (result.qualityResult = <<>> <=> result.imagePath[1] = "gemini")
  /\ \A i \in 1..Len(qualityResults) :
       qualityResults[i] = <<>> <=> generatedImages[i][1] = "gemini"
  /\ pc \in {"x_upload", "x_history", "x_publer", "x_returned"} =>
       LET nulls == {i \in 1..Len(qualityResults) : qualityResults[i] = <<>>}
       IN  /\ composeMode = "fallbackText" <=> nulls # {}
           /\ composeMode \in {"fallbackText", "direct", "html"}
           /\ composeMode = "fallbackText" => composeRouted = nulls
           /\ composeMode = "html" => composeRouted = 1..Len(qualityResults)
           /\ composeMode = "direct" => composeRouted = {}

\* slide 1 accepted from Genspark, slide 2 from Gemini: only slide 2 composited
C15_Witness ==
  /\ pc = "x_upload"
  /\ Len(qualityResults) >= 2
  /\ qualityResults[1] # <<>>
  /\ qualityResults[2] = <<>>
  /\ composeRouted = {i \in 1..Len(qualityResults) : qualityResults[i] = <<>>}
  /\ 1 \notin composeRouted

\* C16: in a successful result of execute every slide whose image came from
\* Gemini is the output of the text compositor, and no Gemini background
\* without text is uploaded or scheduled
C16_FallbackSlidesCarryText ==
  /\ (execResult # <<>> /\ execResult[1].success) =>
       \A i \in 1..Len(qualityResults) :
         qualityResults[i] = <<>> => execResult[1].localImages[i] = <<"slide_with_text", i>>
  /\ \A j \in 1..Len(publicUrls) : publicUrls[j][2][1] # "gemini"
  /\ scheduled # <<>> =>
       \A j \in 1..Len(scheduled[1]) : scheduled[1][j][2][1] # "gemini"

C21_SnapshotReadOnOpenWrittenBySaveState ==
  [][/\ snapshotIO' = "read" => ~contextOpen /\ contextOpen'
     /\ snapshotIO' = "write" =>
          \/ pc = "l_selector" /\ ~isLoggedIn /\ isLoggedIn'
          \/ pc \in {"gi_gwait1", "gi_gwait2"} /\ idpRedirect /\ contextOpen'
          \/ contextOpen /\ ~contextOpen']_vars

\* the snapshot was written after a re-login, on the generator's open context
C21_Witness ==
  /\ snapshotIO = "write"
  /\ idpRedirect
  /\ pc \in {"gi_submit", "gi_wait_image"}
  /\ contextOpen

\* C22: isLoggedIn becomes true only in the step of login() that found the
\* prompt textarea, and the primary attempt that follows one in which
\* navigateToImageGenerator found the session expired starts with login()
C22_ExpiredSessionLogsInAgain ==
  [][/\ ~isLoggedIn /\ isLoggedIn' => pc = "l_selector"
     /\ pc = "p_call" /\ primaryOutcome = "SessionExpired" /\ pc' # "p_call"
          => pc' = "l_goto1"]_vars

\* C23 as stated: isOnLoginPage is true exactly when the URL contains
\* accounts.google.com, /login or /signin, or no textarea is present and
\* both login markers are
C23_LoginPageIffUrlOrMarkersWithoutTextarea ==
  callResult # <<>> =>
    LET page == callArgs[1]
    IN  callResult[1] <=>
          \/ "accounts.google.com" \in page.url
          \/ "/login" \in page.url
          \/ "/signin" \in page.url
          \/ ~page.textarea /\ page.workspaceTitle /\ page.loginButton

\* C23: isOnLoginPage is true exactly when the URL contains
\* accounts.google.com, /login or /signin, or else when the queries of the
\* page do not fail, both login markers are present, and it is not the case
\* that the URL contains genspark.ai and a textarea is present
C23_LoginPageIffUrlOrMarkersOffGenspark ==
  callResult # <<>> =>
    LET page == callArgs[1]
    IN  callResult[1] <=>
          \/ "accounts.google.com" \in page.url
          \/ "/login" \in page.url
          \/ "/signin" \in page.url
          \/ /\ ~page.detached
             /\ page.workspaceTitle /\ page.loginButton
             /\ ~("genspark.ai" \in page.url /\ page.textarea)

\* a page off genspark.ai with a textarea and both markers was found to be
\* a login page
C23_Witness ==
  /\ callResult = <<TRUE>>
  /\ callArgs[1].url = {}
  /\ callArgs[1].textarea
  /\ callArgs[1].workspaceTitle /\ callArgs[1].loginButton

\* C24: the element whose image waitForImageGeneration returns has a natural
\* size of at least 300x300, a displayed size of at least 150x150 and a
\* source marked neither avatar nor logo nor icon; null is returned only when
\* no pass of the loop could save a qualifying image
C24_ReturnedImageQualifies ==
  callResult # <<>> =>
    IF callResult[1] = <<>>
    THEN Saved(callArgs[1]) = {}
    ELSE LET info == callResult[1][1]
         IN  /\ info.natural[1] >= MIN_NATURAL /\ info.natural[2] >= MIN_NATURAL
             /\ info.display[1] >= MIN_DISPLAY /\ info.display[2] >= MIN_DISPLAY
             /\ info.srcWord \notin {"avatar", "logo", "icon"}

\* C25: an image-generation attempt (primary or fallback) starts only when
\* the blog has been generated and saved; the upload returns its URLs only
\* when every slide request has returned an image and the final images of
\* all slides exist; Publer is called only with at least one public URL; and
\* whatever the options, execute returns success only with the blog saved
C25_StagesInOrder ==
  [][/\ primaryCalls' > primaryCalls \/ fallbackCalls' > fallbackCalls => blog = "saved"
     /\ publicUrls' # publicUrls =>
          /\ Len(generatedImages) = MaxSlides
          /\ \A i \in 1..MaxSlides : generatedImages[i] # <<>>
          /\ Len(finalImages) = MaxSlides
          /\ blog = "saved"
     /\ scheduled' # scheduled => Len(publicUrls) > 0 /\ scheduled' = <<publicUrls>>
     /\ execResult' # execResult /\ execResult'[1].success => blog = "saved"]_vars

\* execute returned success after the blog was saved, the images uploaded
\* and the post scheduled
C25_Witness ==
  /\ pc = "x_returned"
  /\ blog = "saved"
  /\ Len(publicUrls) = MaxSlides
  /\ scheduled = <<publicUrls>>
  /\ execResult[1].success

\* C26: whatever the list of slides, adjustSlidesToFourSlides returns four
\* slides: a cover at index 0, then three content slides
C26_CoverThenThreeContent ==
  callResult # <<>> =>
    LET adjusted == callResult[1]
    IN  /\ Len(adjusted) = SLIDES_PER_POST
        /\ adjusted[1].type = "cover"
        /\ \A i \in 2..SLIDES_PER_POST : adjusted[i].type = "content"

\* C27: the prompt of a primary attempt about to be issued, and the prompt
\* the generator is working on, is the original prompt while no image has
\* been judged, and otherwise the corrective prefix of the latest report,
\* which is a rejection, followed by the original prompt; attempts that end
\* without an image in between change nothing
C27_PromptFromLatestRejection ==
  LET expected == IF lastQualityResult = <<>> THEN prompt
                  ELSE FixPrefix(lastQualityResult[1]) \o prompt
  IN  /\ pc = "p_call" =>
           /\ currentPrompt = expected
           /\ lastQualityResult # <<>> => GateDecision(lastQualityResult[1]) # "accept"
      /\ gPrompt # <<>> => gPrompt = expected

\* attempt 1 was rejected, attempt 2 ended without an image, and attempt 3
\* is about to be issued with the repaired prompt
C27_Witness ==
  /\ pc = "p_call"
  /\ attempt = 3
  /\ primaryCalls = 2
  /\ primaryOutcome = "Timeout"
  /\ lastQualityResult # <<>>
  /\ currentPrompt = <<"FIX_TEXT_COMPLETE", "ORIGINAL">>

\* C28: once a fallback attempt has been made for a request, no primary
\* attempt is issued for it any more; and the request raises its terminal
\* failure, on the login-failure path as on the quality-failure path, only
\* when exactly 3 fallback attempts have been made and all have failed
C28_FallbackIsFinal ==
  [][/\ fallbackCalls > 0 => ~(primaryCalls' > primaryCalls)
     /\ result'.status \in {"exhausted", "fatal_session"} =>
          /\ fallbackCalls' = MAX_GEMINI_ATTEMPTS
          /\ geminiAttempt' = MAX_GEMINI_ATTEMPTS + 1
          /\ result'.imagePath = <<>>
          /\ result'.status = IF gensparkFatalError' THEN "fatal_session" ELSE "exhausted"]_vars

\* five primary attempts, then three failed fallback attempts, and the
\* quality failure is raised
C28_Witness ==
  /\ pc = "done"
  /\ result.status = "exhausted"
  /\ primaryCalls = MAX_RETRIES
  /\ fallbackCalls = MAX_GEMINI_ATTEMPTS

\* C29: a request that returns an image returns either the image of the
\* primary attempt whose report the gate has just accepted, or the image of
\* the fallback attempt that has just succeeded; and an image the gate
\* rejects is a file that no later attempt of the request writes, so its
\* path is never the one returned
C29_RejectedPathNeverReturned ==
  [][/\ result'.status = "accepted" /\ result.status # "accepted" =>
          IF result'.qualityResult # <<>>
          THEN /\ pc = "c_evaluate"
               /\ result'.imagePath = ImagePath("genspark", attempt)
               /\ images = <<result'.imagePath>>
               /\ GateDecision(result'.qualityResult[1]) = "accept"
          ELSE /\ pc \in {"f_login", "f_quality"}
               /\ result'.imagePath = ImagePath("gemini", geminiAttempt)
     /\ pc = "c_evaluate" /\ result'.status # "accepted" =>
          /\ GateDecision(lastQualityResult'[1]) = "reject"
          /\ \A later \in (attempt + 1)..MAX_RETRIES :
               images[1] # ImagePath("genspark", later)
          /\ \A g \in 1..MAX_GEMINI_ATTEMPTS : images[1] # ImagePath("gemini", g)]_vars

\* the image of attempt 1 was rejected and the image of attempt 2 returned
C29_Witness ==
  /\ pc = "done"
  /\ result.status = "accepted"
  /\ attempt = 2
  /\ primaryCalls = 2
  /\ result.imagePath = ImagePath("genspark", 2)
  /\ currentPrompt # prompt

\* C30: what the controller does with a judged image is the same for every
\* report that has the same four strict checks, the same backgroundValid and
\* the same score, whatever its textReadable, compositionValid and isValid:
\* the same acceptance or rejection, and on a retry the same next prompt
C30_DecisionFromSixValues ==
  pc # "c_evaluate" /\ lastQualityResult # <<>> =>
    LET report == lastQualityResult[1]
        decisive == {"textPresent", "textComplete", "characterPresent",
                     "characterFeatures", "backgroundValid"}
        alike == {[isValid |-> valid, score |-> report.score, checks |-> checks] :
                    valid \in BOOLEAN,
                    checks \in {c \in AllChecks :
                                  \A name \in decisive : c[name] = report.checks[name]}}
    IN  \A other \in alike :
          /\ (result.status = "accepted") <=> (GateDecision(other) = "accept")
          /\ pc = "p_call" => currentPrompt = generateFixedPrompt(prompt, other)

\* an image was accepted on a report whose textReadable, compositionValid
\* and isValid are all false
C30_Witness ==
  /\ pc = "done"
  /\ result.status = "accepted"
  /\ ~lastQualityResult[1].checks["textReadable"]
  /\ ~lastQualityResult[1].checks["compositionValid"]
  /\ ~lastQualityResult[1].isValid

====
